---- MODULE Spec2Model ----
(***************************************************************************)
(* Model of the ESLint rule eslint-plugin-angular-template-consistent-this *)
(* (src/lib/rules/eslint-plugin-angular-template-consistent-this.ts).      *)
(*                                                                         *)
(* One rule invocation (createRuleListener) owns two arrays, `variables`   *)
(* and `templates`; the host traverses the template in document order and  *)
(* calls the Template, Element and PropertyRead visitors.  A PropertyRead  *)
(* visit may report one violation carrying a fix; FixAndRelint models the  *)
(* host applying that fix to the template text and linting it again.       *)
(***************************************************************************)
EXTENDS Integers, Sequences, FiniteSets, TLC

\* The values the schema allows for an option, and the options of the rule.
Modes == {"explicit", "implicit"}

RuleOptions == [properties : Modes, variables : Modes, templateReferences : Modes]

VARIABLES options, variables, templates, lastVisit, lastRead, thrown

vars == <<options, variables, templates, lastVisit, lastRead, thrown>>

(***************************************************************************)
(* Bound of the model.                                                     *)
(***************************************************************************)
\* Entries either array may hold: a traversal declares at most this many
\* input variables and at most this many references.
MaxRegistry == 2

(***************************************************************************)
(* Inputs.                                                                 *)
(***************************************************************************)
\* Names read or declared in the templates that are enumerated.
Names == {"$event", "item", "tpl"}

\* Source characters of each name.
Chars(name) ==
    CASE name = "$event" -> <<"$", "e", "v", "e", "n", "t">>
      [] name = "item"   -> <<"i", "t", "e", "m">>
      [] name = "tpl"    -> <<"t", "p", "l">>
      [] OTHER           -> <<"?">>

\* Declaration lists a Template or Element node may carry (names of its
\* VariableAst / ReferenceAst entries, in order).
DeclLists == {<<>>, <<"tpl">>, <<"$event", "item">>}

\* Template text in front of the read: the read stands on the second line.
Prefixes == {<<"<", "\n", "{">>}

\* The ways a read is written: bare, qualified with `this.`, or read off
\* another object.
Written == {"bare", "this", "member"}

\* JavaScript's undefined, for an absent parent node.
Undefined == [kind |-> "undefined"]

\* An AST node with a name and nothing above it.
Host(name) == [name |-> name, kind |-> "node", parent |-> Undefined]

\* The ancestors a PropertyRead node may have: none, a parent only, or a
\* parent whose own parent is a binding with a directive name.
Parents ==
    {Undefined, [kind |-> "node", parent |-> Undefined]}
    \cup {[kind |-> "node", parent |-> Host(d)] :
            d \in {"ngIfThen", "ngIfElse", "ngTemplateOutlet", "ngForOf"}}

(***************************************************************************)
(* Program constants.                                                      *)
(***************************************************************************)
SAFE_STRUCTURAL_DIRECTIVES_noElse == {"ngIfThen", "ngTemplateOutlet"}

SAFE_STRUCTURAL_DIRECTIVES == {"ngIfThen", "ngIfElse", "ngTemplateOutlet"}

SAFE_GLOBALS_none == {}

SAFE_GLOBALS == {"$event"}

defaultOptions ==
    [properties |-> "explicit", variables |-> "implicit",
     templateReferences |-> "implicit"]

MESSAGE_IDS ==
    [properties |-> [explicit |-> "explicitThisProperties",
                     implicit |-> "implicitThisProperties"],
     variables |-> [explicit |-> "explicitThisVariables",
                    implicit |-> "implicitThisVariables"],
     templateReferences |-> [explicit |-> "explicitThisTemplateReferences",
                             implicit |-> "implicitThisTemplateReferences"]]

\* The literal "this." of the fix.
THIS_DOT == <<"t", "h", "i", "s", ".">>

(***************************************************************************)
(* The template text and the PropertyRead node the parser makes of it.     *)
(***************************************************************************)
IsIdentChar(c) == c \notin {".", "{", "}", "<", "\n", " "}

\* The identifier characters of `text` from 0-based offset `at` on.
RECURSIVE IdentRun(_, _)
IdentRun(text, at) ==
    IF at < Len(text) /\ IsIdentChar(text[at + 1])
    THEN <<text[at + 1]>> \o IdentRun(text, at + 1)
    ELSE <<>>

NameOf(chars) ==
    IF \E n \in Names : Chars(n) = chars
    THEN CHOOSE n \in Names : Chars(n) = chars
    ELSE "?"

\* Text of a template holding one read.
SourceOf(prefix, written, name) ==
    prefix
    \o (CASE written = "this"   -> THIS_DOT
          [] written = "member" -> <<"x", ".">>
          [] OTHER              -> <<>>)
    \o Chars(name) \o <<"}">>

\* The PropertyRead node at offset `start` of `text`: its name, its receiver
\* and its absolute source span.
ParseRead(text, start, parent) ==
    LET w     == IdentRun(text, start)
        after == start + Len(w)
        dot   == after < Len(text) /\ text[after + 1] = "."
        w2    == IdentRun(text, after + 1)
    IN  IF w # <<>> /\ dot /\ w2 # <<>>
        THEN [name |-> NameOf(w2),
              parent |-> parent,
              receiver |-> (IF w = <<"t", "h", "i", "s">>
                            THEN "ThisReceiver" ELSE "PropertyRead"),
              sourceSpan |-> [start |-> start, end |-> after + 1 + Len(w2)]]
        ELSE IF w # <<>>
        THEN [name |-> NameOf(w), parent |-> parent,
              receiver |-> "ImplicitReceiver",
              sourceSpan |-> [start |-> start, end |-> after]]
        ELSE [name |-> "?", parent |-> parent,
              receiver |-> "EmptyExpr",
              sourceSpan |-> [start |-> start, end |-> start]]

isImplicitReceiver(node) == node.receiver = "ImplicitReceiver"

isExplicitReceiver(node) == node.receiver = "ThisReceiver"

(***************************************************************************)
(* reportError.                                                            *)
(***************************************************************************)
\* Offsets at which a line of `text` starts.
LineStarts(text) == {0} \cup {k \in 1..Len(text) : text[k] = "\n"}

getLocFromIndex(text, index) ==
    LET before == {s \in LineStarts(text) : s <= index}
        lineStart == CHOOSE s \in before : \A t \in before : t <= s
    IN  [line |-> Cardinality(before), column |-> index - lineStart]

getIndexFromLoc(text, loc) ==
    LET lineStart == CHOOSE s \in LineStarts(text) :
                        Cardinality({t \in LineStarts(text) : t < s}) = loc.line - 1
    IN  lineStart + loc.column

fix_keepDot(explicit, startIndex) ==
    IF explicit
    THEN [text |-> THIS_DOT, op |-> "insertTextBeforeRange",
          range |-> <<startIndex, startIndex>>]
    ELSE [text |-> <<>>, op |-> "replaceTextRange",
          range |-> <<startIndex, startIndex + 4>>]

\* The fix callback of the report.
fix(explicit, startIndex) ==
    IF explicit
    THEN [text |-> THIS_DOT, op |-> "insertTextBeforeRange",
          range |-> <<startIndex, startIndex>>]
    ELSE [text |-> <<>>, op |-> "replaceTextRange",
          range |-> <<startIndex, startIndex + Len(THIS_DOT)>>]

\* The reports reportError hands to context.report.
reportError(text, explicit, messageId, node) ==
    LET loc == [start |-> getLocFromIndex(text, node.sourceSpan.start),
                end   |-> getLocFromIndex(text, node.sourceSpan.end)]
        startIndex == getIndexFromLoc(text, loc.start)
    IN  <<[loc |-> loc, fix |-> fix(explicit, startIndex),
           messageId |-> messageId, data |-> [prop |-> node.name]]>>

\* The host applying a fix to the text.
ApplyFix(text, f) ==
    IF f.op = "insertTextBeforeRange"
    THEN SubSeq(text, 1, f.range[1]) \o f.text
         \o SubSeq(text, f.range[1] + 1, Len(text))
    ELSE SubSeq(text, 1, f.range[1]) \o f.text
         \o SubSeq(text, f.range[2] + 1, Len(text))

(***************************************************************************)
(* The PropertyRead visitor.                                               *)
(***************************************************************************)
includes(array, x) == \E i \in 1..Len(array) : array[i] = x

VariablesTier_byProperties(text, opts, node) ==
    IF opts.properties = "explicit" /\ isImplicitReceiver(node)
    THEN reportError(text, TRUE, MESSAGE_IDS.variables.explicit, node)
    ELSE IF opts.properties = "implicit" /\ isExplicitReceiver(node)
    THEN reportError(text, FALSE, MESSAGE_IDS.variables.implicit, node)
    ELSE <<>>

\* 1) Template input variable.
VariablesTier(text, opts, node) ==
    IF opts.variables = "explicit" /\ isImplicitReceiver(node)
    THEN reportError(text, TRUE, MESSAGE_IDS.variables.explicit, node)
    ELSE IF opts.variables = "implicit" /\ isExplicitReceiver(node)
    THEN reportError(text, FALSE, MESSAGE_IDS.variables.implicit, node)
    ELSE <<>>

\* 2) Template reference variable.
TemplateReferencesTier(text, opts, node) ==
    IF opts.templateReferences = "explicit" /\ isImplicitReceiver(node)
    THEN reportError(text, TRUE, MESSAGE_IDS.templateReferences.explicit, node)
    ELSE IF opts.templateReferences = "implicit" /\ isExplicitReceiver(node)
    THEN reportError(text, FALSE, MESSAGE_IDS.templateReferences.implicit, node)
    ELSE <<>>

\* 3) Read inside a safe structural directive.
StructuralDirectiveTier(text, opts, node) ==
    IF opts.templateReferences = "explicit" /\ isImplicitReceiver(node)
    THEN reportError(text, TRUE, MESSAGE_IDS.templateReferences.explicit, node)
    ELSE IF opts.templateReferences = "implicit" /\ isExplicitReceiver(node)
    THEN reportError(text, FALSE, MESSAGE_IDS.templateReferences.implicit, node)
    ELSE <<>>

PropertiesTier_swapped(text, opts, node) ==
    IF opts.properties = "implicit" /\ isImplicitReceiver(node)
    THEN reportError(text, TRUE, MESSAGE_IDS.properties.explicit, node)
    ELSE IF opts.properties = "explicit" /\ isExplicitReceiver(node)
    THEN reportError(text, FALSE, MESSAGE_IDS.properties.implicit, node)
    ELSE <<>>

\* 4) Interpolation of a databinding property.
PropertiesTier(text, opts, node) ==
    IF opts.properties = "explicit" /\ isImplicitReceiver(node)
    THEN reportError(text, TRUE, MESSAGE_IDS.properties.explicit, node)
    ELSE IF opts.properties = "implicit" /\ isExplicitReceiver(node)
    THEN reportError(text, FALSE, MESSAGE_IDS.properties.implicit, node)
    ELSE <<>>

Returned(reports) == [reports |-> reports, threw |-> FALSE]

\* Reading a property of undefined.
TypeError == [reports |-> <<>>, threw |-> TRUE]

PropertyReadVisitor_templatesFirst(text, opts, vs, ts, node) ==
    IF ~isImplicitReceiver(node) /\ ~isExplicitReceiver(node)
    THEN Returned(<<>>)
    ELSE IF node.name \in SAFE_GLOBALS
    THEN Returned(<<>>)
    ELSE IF includes(ts, node.name)
    THEN Returned(TemplateReferencesTier(text, opts, node))
    ELSE IF includes(vs, node.name)
    THEN Returned(VariablesTier(text, opts, node))
    ELSE IF node.parent = Undefined \/ node.parent.parent = Undefined
    THEN TypeError
    ELSE IF node.parent.parent.name \in SAFE_STRUCTURAL_DIRECTIVES
    THEN Returned(StructuralDirectiveTier(text, opts, node))
    ELSE Returned(PropertiesTier(text, opts, node))

PropertyReadVisitor_noReturn(text, opts, vs, ts, node) ==
    IF ~isImplicitReceiver(node) /\ ~isExplicitReceiver(node)
    THEN Returned(<<>>)
    ELSE IF node.name \in SAFE_GLOBALS
    THEN Returned(<<>>)
    ELSE IF includes(vs, node.name)
    THEN Returned(VariablesTier(text, opts, node)
                  \o PropertiesTier(text, opts, node))
    ELSE IF includes(ts, node.name)
    THEN Returned(TemplateReferencesTier(text, opts, node))
    ELSE IF node.parent = Undefined \/ node.parent.parent = Undefined
    THEN TypeError
    ELSE IF node.parent.parent.name \in SAFE_STRUCTURAL_DIRECTIVES
    THEN Returned(StructuralDirectiveTier(text, opts, node))
    ELSE Returned(PropertiesTier(text, opts, node))

\* The body of the PropertyRead visitor: what it reports, or that it throws.
PropertyReadVisitor(text, opts, vs, ts, node) ==
    IF ~isImplicitReceiver(node) /\ ~isExplicitReceiver(node)
    THEN Returned(<<>>)
    ELSE IF node.name \in SAFE_GLOBALS
    THEN Returned(<<>>)
    ELSE IF includes(vs, node.name)
    THEN Returned(VariablesTier(text, opts, node))
    ELSE IF includes(ts, node.name)
    THEN Returned(TemplateReferencesTier(text, opts, node))
    ELSE IF node.parent = Undefined \/ node.parent.parent = Undefined
    THEN TypeError
    ELSE IF node.parent.parent.name \in SAFE_STRUCTURAL_DIRECTIVES
    THEN Returned(StructuralDirectiveTier(text, opts, node))
    ELSE Returned(PropertiesTier(text, opts, node))

(***************************************************************************)
(* State machine.                                                          *)
(***************************************************************************)
NoRead == [pass |-> "none"]

Init ==
    /\ options \in RuleOptions
    /\ variables = <<>>
    /\ templates = <<>>
    /\ lastVisit = "createRuleListener"
    /\ lastRead = NoRead
    /\ thrown = FALSE

\* A new rule invocation, with its own options and arrays.
createRuleListener ==
    /\ options' \in RuleOptions
    /\ variables' = <<>>
    /\ templates' = <<>>
    /\ lastVisit' = "createRuleListener"
    /\ lastRead' = NoRead
    /\ thrown' = FALSE

Template(node) ==
    /\ ~thrown
    /\ Len(variables) + Len(node.variables) <= MaxRegistry
    /\ Len(templates) + Len(node.references) <= MaxRegistry
    /\ variables' = variables \o node.variables
    /\ templates' = templates \o node.references
    /\ lastVisit' = "Template"
    /\ UNCHANGED <<options, lastRead, thrown>>

Element_replace(node) ==
    /\ ~thrown
    /\ Len(templates) + Len(node.references) <= MaxRegistry
    /\ templates' = node.references
    /\ lastVisit' = "Element"
    /\ UNCHANGED <<options, variables, lastRead, thrown>>

Element(node) ==
    /\ ~thrown
    /\ Len(templates) + Len(node.references) <= MaxRegistry
    /\ templates' = IF Len(node.references) > 0
                    THEN templates \o node.references
                    ELSE templates
    /\ lastVisit' = "Element"
    /\ UNCHANGED <<options, variables, lastRead, thrown>>

PropertyRead(text, node) ==
    /\ ~thrown
    /\ LET result == PropertyReadVisitor(text, options, variables, templates, node)
       IN  /\ lastRead' = [text |-> text, node |-> node, before |-> node,
                           reports |-> result.reports, pass |-> "lint"]
           /\ thrown' = result.threw
    /\ lastVisit' = "PropertyRead"
    /\ UNCHANGED <<options, variables, templates>>

\* The host applies the fix of the report just made and lints the edited
\* template again with the same options: the traversal repeats up to the
\* same read, so the arrays hold what they hold now.
FixAndRelint ==
    /\ ~thrown
    /\ lastVisit = "PropertyRead"
    /\ lastRead.pass = "lint"
    /\ Len(lastRead.reports) > 0
    /\ LET text   == ApplyFix(lastRead.text, lastRead.reports[1].fix)
           node   == ParseRead(text, lastRead.node.sourceSpan.start,
                               lastRead.node.parent)
           result == PropertyReadVisitor(text, options, variables, templates, node)
       IN  /\ lastRead' = [text |-> text, node |-> node,
                           before |-> lastRead.node,
                           reports |-> result.reports, pass |-> "relint"]
           /\ thrown' = result.threw
    /\ lastVisit' = "PropertyRead"
    /\ UNCHANGED <<options, variables, templates>>

VisitTemplate ==
    \E vs \in DeclLists, rs \in DeclLists :
        Template([variables |-> vs, references |-> rs])

VisitElement ==
    \E rs \in DeclLists : Element([references |-> rs])

VisitPropertyRead ==
    \E prefix \in Prefixes, written \in Written, name \in Names,
       parent \in Parents :
        LET text == SourceOf(prefix, written, name)
        IN  PropertyRead(text, ParseRead(text, Len(prefix), parent))

Next ==
    \/ createRuleListener
    \/ VisitTemplate
    \/ VisitElement
    \/ VisitPropertyRead
    \/ FixAndRelint

Spec == Init /\ [][Next]_vars

(***************************************************************************)
(* Vocabulary of the properties.                                           *)
(***************************************************************************)
\* A PropertyRead visit has happened in this traversal.
HasRead == lastRead.pass # "none"

\* The last visitor call was a PropertyRead: the arrays are what it saw.
AtRead == HasRead /\ lastVisit = "PropertyRead"

ReadIsImplicit == lastRead.node.receiver = "ImplicitReceiver"

ReadIsExplicit == lastRead.node.receiver = "ThisReceiver"

Qualifiable == ReadIsImplicit \/ ReadIsExplicit

Registered(array) == \E i \in 1..Len(array) : array[i] = lastRead.node.name

ReportedKinds == {lastRead.reports[i].messageId : i \in 1..Len(lastRead.reports)}

\* The violation kinds a tier allows under `mode`: the explicit kind for a
\* bare read under "explicit", the implicit kind for a qualified read under
\* "implicit", none otherwise.
Policy(mode, explicitKind, implicitKind) ==
    IF mode = "explicit" /\ ReadIsImplicit THEN {explicitKind}
    ELSE IF mode = "implicit" /\ ReadIsExplicit THEN {implicitKind}
    ELSE {}

\* The read made exactly the reports `kinds` allows: none, or one of that kind.
Outcome(kinds) ==
    /\ ~thrown
    /\ Len(lastRead.reports) <= 1
    /\ ReportedKinds = kinds

ByVariables ==
    Outcome(Policy(options.variables,
                   "explicitThisVariables", "implicitThisVariables"))

ByTemplateReferences ==
    Outcome(Policy(options.templateReferences,
                   "explicitThisTemplateReferences",
                   "implicitThisTemplateReferences"))

ByProperties ==
    Outcome(Policy(options.properties,
                   "explicitThisProperties", "implicitThisProperties"))

HasGrandparent ==
    /\ lastRead.node.parent # Undefined
    /\ lastRead.node.parent.parent # Undefined

IsPrefix(a, b) == Len(a) <= Len(b) /\ SubSeq(b, 1, Len(a)) = a

(***************************************************************************)
(* Properties.                                                             *)
(***************************************************************************)
\* C1: a read of a name that is declared as a template reference anywhere in
\* the unit, also on a node visited after the read, and that is neither a safe
\* global nor an input variable, is decided by the template-reference tier.
\* (Stated for reads whose two ancestors exist, so that the read is decided
\* at all.)
C1_ForwardReferenceResolved ==
    (/\ HasRead
     /\ Qualifiable
     /\ HasGrandparent
     /\ lastRead.node.name # "$event"
     /\ ~Registered(variables)
     /\ Registered(templates))
    => ByTemplateReferences

\* C2: a qualifiable read of a registered input variable that is no safe
\* global is decided by options.variables alone: explicitThisVariables iff
\* the option is "explicit" and the read is bare, implicitThisVariables iff
\* the option is "implicit" and the read is qualified.
C2_VariablesTier ==
    (/\ AtRead
     /\ Qualifiable
     /\ lastRead.node.name # "$event"
     /\ Registered(variables))
    => ByVariables

C2_Witness ==
    /\ AtRead
    /\ lastRead.pass = "lint"
    /\ ReadIsImplicit
    /\ lastRead.node.name = "item"
    /\ Registered(variables)
    /\ options = [properties |-> "implicit", variables |-> "explicit",
                  templateReferences |-> "implicit"]
    /\ ReportedKinds = {"explicitThisVariables"}

\* C3: a read whose name is in both arrays is decided by options.variables
\* and reports nothing but a variables kind.
C3_VariablesBeforeTemplateReferences ==
    (/\ AtRead
     /\ Qualifiable
     /\ Registered(variables)
     /\ Registered(templates))
    => /\ ReportedKinds \subseteq {"explicitThisVariables", "implicitThisVariables"}
       /\ lastRead.node.name # "$event" => ByVariables

C3_Witness ==
    /\ AtRead
    /\ lastRead.pass = "lint"
    /\ ReadIsExplicit
    /\ lastRead.node.name = "tpl"
    /\ Registered(variables)
    /\ Registered(templates)
    /\ HasGrandparent
    /\ lastRead.node.parent.parent.name = "ngTemplateOutlet"
    /\ options = [properties |-> "implicit", variables |-> "implicit",
                  templateReferences |-> "explicit"]
    /\ ReportedKinds = {"implicitThisVariables"}

\* C4: once the fix of a report is applied, the read has the other receiver
\* form, the same name, and linting it again reports nothing for it.
C4_FixIdempotent ==
    lastRead.pass = "relint"
    => /\ lastRead.node.name = lastRead.before.name
       /\ \/ /\ lastRead.before.receiver = "ImplicitReceiver"
             /\ lastRead.node.receiver = "ThisReceiver"
          \/ /\ lastRead.before.receiver = "ThisReceiver"
             /\ lastRead.node.receiver = "ImplicitReceiver"
       /\ ~thrown
       /\ lastRead.reports = <<>>

C4_Witness ==
    /\ lastRead.pass = "relint"
    /\ lastRead.before.receiver = "ThisReceiver"
    /\ lastRead.before.name = "item"
    /\ Registered(variables)
    /\ options.variables = "implicit"
    /\ lastRead.text = <<"<", "\n", "{", "i", "t", "e", "m", "}">>

\* C5: a read of the safe global $event reports nothing, whatever the
\* options, the receiver, the arrays and the directive.
C5_SafeGlobalNeverReported ==
    (AtRead /\ lastRead.node.name = "$event")
    => /\ ~thrown
       /\ lastRead.reports = <<>>

C5_Witness ==
    /\ AtRead
    /\ lastRead.node.name = "$event"
    /\ ReadIsImplicit
    /\ Registered(variables)
    /\ Registered(templates)
    /\ lastRead.node.parent = Undefined
    /\ options = [properties |-> "explicit", variables |-> "explicit",
                  templateReferences |-> "explicit"]
    /\ lastRead.reports = <<>>

\* C6: a read whose parent or grandparent node is missing, and whose name is
\* neither a safe global nor registered, does not fail and is decided by the
\* plain-property tier.
C6_MissingAncestorFallsThrough ==
    (/\ AtRead
     /\ Qualifiable
     /\ lastRead.node.name # "$event"
     /\ ~Registered(variables)
     /\ ~Registered(templates)
     /\ ~HasGrandparent)
    => ByProperties

\* C7: an unregistered read inside ngIfThen, ngIfElse or ngTemplateOutlet is
\* decided by options.templateReferences alone.
C7_StructuralDirectiveTier ==
    (/\ AtRead
     /\ Qualifiable
     /\ lastRead.node.name # "$event"
     /\ ~Registered(variables)
     /\ ~Registered(templates)
     /\ HasGrandparent
     /\ lastRead.node.parent.parent.name
            \in {"ngIfThen", "ngIfElse", "ngTemplateOutlet"})
    => ByTemplateReferences

C7_Witness ==
    /\ AtRead
    /\ lastRead.pass = "lint"
    /\ ReadIsExplicit
    /\ lastRead.node.name = "tpl"
    /\ ~Registered(variables)
    /\ ~Registered(templates)
    /\ HasGrandparent
    /\ lastRead.node.parent.parent.name = "ngIfElse"
    /\ options = [properties |-> "explicit", variables |-> "explicit",
                  templateReferences |-> "implicit"]
    /\ ReportedKinds = {"implicitThisTemplateReferences"}

\* C8: a read that no earlier tier takes (no safe global, in neither array,
\* its directive outside the safe list) is decided by options.properties;
\* under the default options a bare one is reported as explicitThisProperties
\* with "this." inserted at its start.
C8_PropertiesTier ==
    (/\ AtRead
     /\ Qualifiable
     /\ lastRead.node.name # "$event"
     /\ ~Registered(variables)
     /\ ~Registered(templates)
     /\ HasGrandparent
     /\ lastRead.node.parent.parent.name
            \notin {"ngIfThen", "ngIfElse", "ngTemplateOutlet"})
    => /\ ByProperties
       /\ (/\ options = [properties |-> "explicit", variables |-> "implicit",
                         templateReferences |-> "implicit"]
           /\ ReadIsImplicit)
          => /\ ReportedKinds = {"explicitThisProperties"}
             /\ lastRead.reports[1].data.prop = lastRead.node.name
             /\ lastRead.reports[1].fix =
                    [text |-> <<"t", "h", "i", "s", ".">>,
                     op |-> "insertTextBeforeRange",
                     range |-> <<lastRead.node.sourceSpan.start,
                                 lastRead.node.sourceSpan.start>>]

C8_Witness ==
    /\ AtRead
    /\ lastRead.pass = "lint"
    /\ ReadIsImplicit
    /\ lastRead.node.name = "item"
    /\ ~Registered(variables)
    /\ ~Registered(templates)
    /\ Len(templates) > 0
    /\ HasGrandparent
    /\ lastRead.node.parent.parent.name = "ngForOf"
    /\ options = defaultOptions
    /\ ReportedKinds = {"explicitThisProperties"}

\* C9: a PropertyRead visit reports at most once; a read off anything but the
\* implicit or the this receiver reports nothing; an explicit* kind is
\* reported only for a bare read and an implicit* kind only for a qualified one.
C9_AtMostOneReport ==
    HasRead
    => /\ Len(lastRead.reports) <= 1
       /\ ~Qualifiable => lastRead.reports = <<>>
       /\ \A k \in ReportedKinds :
            /\ k \in {"explicitThisProperties", "explicitThisVariables",
                      "explicitThisTemplateReferences"} <=> ReadIsImplicit
            /\ k \in {"implicitThisProperties", "implicitThisVariables",
                      "implicitThisTemplateReferences"} <=> ReadIsExplicit

C9_Witness ==
    /\ AtRead
    /\ lastRead.pass = "lint"
    /\ ReadIsImplicit
    /\ lastRead.node.name = "item"
    /\ Registered(variables)
    /\ options.variables = "explicit"
    /\ options.properties = "explicit"
    /\ Len(lastRead.reports) = 1

\* C10: within one rule invocation the arrays only grow: a Template visit
\* appends its variables and references, an Element visit appends its
\* references, a PropertyRead visit changes neither; a read visited after a
\* registration is decided by the tier of its name; a new invocation starts
\* with both arrays empty.
C10_RegistriesOnlyGrow ==
    [][/\ lastVisit' = "createRuleListener"
          => variables' = <<>> /\ templates' = <<>>
       /\ lastVisit' # "createRuleListener"
          => IsPrefix(variables, variables') /\ IsPrefix(templates, templates')
       /\ lastVisit' = "Template"
          => \E vs \in DeclLists, rs \in DeclLists :
                /\ variables' = variables \o vs
                /\ templates' = templates \o rs
       /\ lastVisit' = "Element"
          => /\ variables' = variables
             /\ \E rs \in DeclLists : templates' = templates \o rs
       /\ lastVisit' = "PropertyRead"
          => /\ variables' = variables
             /\ templates' = templates
             /\ (Qualifiable /\ lastRead.node.name # "$event"
                 /\ Registered(variables)
                 => ByVariables)'
             /\ (Qualifiable /\ lastRead.node.name # "$event"
                 /\ ~Registered(variables) /\ Registered(templates)
                 => ByTemplateReferences)'
      ]_vars

C10_Witness ==
    /\ AtRead
    /\ lastRead.pass = "lint"
    /\ ReadIsExplicit
    /\ lastRead.node.name = "tpl"
    /\ variables = <<"$event", "item">>
    /\ templates = <<"tpl", "tpl">>
    /\ HasGrandparent
    /\ lastRead.node.parent.parent.name = "ngForOf"
    /\ options = defaultOptions
    /\ ReportedKinds = {"implicitThisTemplateReferences"}

====
